---- MODULE Spec2Model ----
(***************************************************************************)
(* Model of the Tailscale add-on service of Project-Raven:                 *)
(*   archive/libreelec-tailscale-addon/source/default.py                   *)
(*     TailscaleService (start_tailscaled, is_tailscaled_running,          *)
(*     get_tailscale_status, authenticate_if_needed, login,                *)
(*     stop_tailscale, run) and Monitor.onSettingsChanged                  *)
(*   configurations/addons/service.tailscale-config/service.py             *)
(*     TailscaleConfigService.apply_settings                               *)
(*                                                                         *)
(* Two control paths share the one TailscaleService object: the thread     *)
(* that executes run() and the path that executes the settings callback.   *)
(* The source holds no lock, so every interleaving of the two at the       *)
(* blocking points (subprocess calls, sleeps, waits) is a behaviour.       *)
(***************************************************************************)
EXTENDS Integers, Sequences, FiniteSets, TLC

VARIABLES
    pc,                 \* per path: the statement it is blocked at
    ctx,                \* per path: the caller its current method returns to
    tailscaled_process, \* self.tailscaled_process: 0 is None, else a pid
    alive,              \* spawned pids now in the process table
    nextPid,            \* next pid Popen hands out
    external,           \* a tailscaled not spawned by the service is running
    pgrep_ok,           \* the system can execute pgrep
    abortRequested,     \* Kodi's abort flag (monitor.abortRequested())
    settings,           \* the add-on settings store
    settingsEvents,     \* settings-change events delivered so far
    cmd,                \* per path: argv of the login command it is running
    spawned,            \* per path: pid its start_tailscaled() spawned, 0 if none
    waiting,            \* per path: pid its stop_tailscale() waits on, 0 if none
    tickStarts,         \* start_tailscaled() calls of run() in the current tick
    tickAlive,          \* result of the liveness check of the current tick
    abortAtWait,        \* abort was requested while run() was in waitForAbort
    lastHandleOp,       \* "stop" once a stop returned and no start was entered since
    last,               \* the latest step: who took it and how it ended
    log,                \* lines the latest step wrote to the log sink (xbmc.log)
    notes,              \* notifications the latest step showed
    authkey_file,       \* TailscaleConfigService: the authkey file
    cfg,                \* TailscaleConfigService: settings and position
    wiz,                \* RavenSetupWizard: its fields, files and position
    rst                 \* reset_auth.py: its position and what it acted on

vars == <<pc, ctx, tailscaled_process, alive, nextPid, external, pgrep_ok,
          abortRequested,
          settings, settingsEvents, cmd, spawned, waiting, tickStarts,
          tickAlive, abortAtWait, lastHandleOp, last, log, notes,
          authkey_file, cfg, wiz, rst>>

\* ------------------------------------------------------------------ bounds
MaxProcs == 2           \* processes Popen may create in one behaviour
MaxSettingsEvents == 1  \* settings-change events in one behaviour
MaxRestarts == 1        \* runs of restart.py in one behaviour

Paths == {"run", "cb"}
Pids == 1..MaxProcs

CbPaths == {"cb"}

\* ----------------------------------------------------------------- strings
\* A string is a sequence of symbols.  Text that comes from a setting is
\* spelled character by character; a literal of the source is one symbol.
Lit(x) == <<x>>
Space == <<" ">>

RECURSIVE lstrip(_)
lstrip(s) == IF s # <<>> /\ Head(s) = " " THEN lstrip(Tail(s)) ELSE s

RECURSIVE rstrip(_)
rstrip(s) == IF s # <<>> /\ s[Len(s)] = " "
             THEN rstrip(SubSeq(s, 1, Len(s) - 1)) ELSE s

\* str.strip()
strip(s) == rstrip(lstrip(s))

\* str.startswith(prefix)
startswith(s, prefix) ==
    Len(s) >= Len(prefix) /\ SubSeq(s, 1, Len(prefix)) = prefix

\* needle in hay
Contains(hay, needle) ==
    \E i \in 1..(Len(hay) - Len(needle) + 1) :
        SubSeq(hay, i, i + Len(needle) - 1) = needle

\* sep.join(parts)
RECURSIVE join(_, _)
join(sep, parts) ==
    IF parts = <<>> THEN <<>>
    ELSE IF Len(parts) = 1 THEN parts[1]
    ELSE parts[1] \o sep \o join(sep, Tail(parts))

\* Python truthiness of a str in `a or b`
StrOr(a, b) == IF a # <<>> THEN a ELSE b

TskeyPrefix == <<"t", "s", "k", "e", "y", "-">>

\* ---------------------------------------------------------------- settings
KeyTskey == TskeyPrefix \o <<"a", "b", "c", "1", "2", "3">>  \* "tskey-abc123"
KeyPlain == <<"k", "1">>                                      \* "k1"
KeyBlank == <<" ">>                                           \* " "
KeyPadded == <<" ">> \o TskeyPrefix \o <<"x", " ">>           \* " tskey-x "

AuthKeys == {<<>>, KeyBlank, KeyTskey, KeyPlain}
Hostnames == {<<>>, <<"r", "v">>}
Ports == {<<>>, <<"4", "1", "6", "4", "2">>}
BoolStrings == {"true", "false"}

\* The settings of service.tailscale read through addon.getSetting(...)
SettingsSpace ==
    [auto_login : BoolStrings, auth_key : AuthKeys \cup {KeyPadded},
     accept_routes : BoolStrings, accept_dns : BoolStrings,
     hostname : Hostnames, daemon_port : Ports]

\* The part of the settings space the supervisor specification ranges over
SupervisorSettings ==
    {s \in SettingsSpace :
        /\ s.accept_routes = "false" /\ s.accept_dns = "true"
        /\ s.hostname = <<>> /\ s.daemon_port = <<>>
        /\ s.auth_key \in {<<>>, KeyBlank, KeyTskey}}

\* ------------------------------------------------------- commands and text
tailscaled_bin == Lit("<addon_path>/bin/tailscaled")
tailscale_bin == Lit("<addon_path>/bin/tailscale")
StateArg == Lit("--state=") \o Lit("<state_dir>/tailscaled.state")
SocketArg == Lit("--socket=") \o Lit("<state_dir>/tailscaled.sock")
DefaultPort == <<"4", "1", "6", "4", "1">>

\* start_tailscaled: cmd = [...]   ('+' binds tighter than 'or')
DaemonCmd(s) ==
    << tailscaled_bin, StateArg, SocketArg,
       StrOr(Lit("--port=") \o s.daemon_port, DefaultPort) >>

\* login: `if auth_key and auth_key.strip()`
HasAuthKey(s) == s.auth_key # <<>> /\ strip(s.auth_key) # <<>>

\* faulty variant: the accept_dns setting is not looked at
LoginCmdNoDns(s) ==
    << tailscale_bin, SocketArg, Lit("up") >>
    \o (IF HasAuthKey(s) THEN << Lit("--authkey"), strip(s.auth_key) >> ELSE <<>>)
    \o (IF s.accept_routes = "true" THEN << Lit("--accept-routes") >> ELSE <<>>)
    \o (IF s.hostname # <<>> THEN << Lit("--hostname"), s.hostname >> ELSE <<>>)

\* login: cmd = [...] with the flags the settings select
LoginCmd(s) ==
    << tailscale_bin, SocketArg, Lit("up") >>
    \o (IF HasAuthKey(s) THEN << Lit("--authkey"), strip(s.auth_key) >> ELSE <<>>)
    \o (IF s.accept_routes = "true" THEN << Lit("--accept-routes") >> ELSE <<>>)
    \o (IF s.accept_dns = "true" THEN << Lit("--accept-dns") >> ELSE <<>>)
    \o (IF s.hostname # <<>> THEN << Lit("--hostname"), s.hostname >> ELSE <<>>)

\* login: [c for c in cmd if not c.startswith('tskey-')]
NotTskey(c) == ~startswith(c, TskeyPrefix)
RedactedCmd(c) == SelectSeq(c, NotTskey)

\* login: the command line written to the log
LoginLogLine(c) ==
    Lit("[Tailscale] Logging in with command: ") \o join(Space, RedactedCmd(c))

\* repr() of one argv element, and of the argv list
ReprArg(a) == Lit("'") \o a \o Lit("'")
ReprList(c) ==
    Lit("[") \o join(Lit(", "), [i \in 1..Len(c) |-> ReprArg(c[i])]) \o Lit("]")

\* str(subprocess.TimeoutExpired(cmd, timeout)): the message names the argv
TimeoutText(c, secs) ==
    Lit("Command '") \o ReprList(c) \o Lit("' timed out after ")
    \o Lit(secs) \o Lit(" seconds")

\* stderr texts of a failing `tailscale up`
StderrApproval ==
    Lit("To authorize your machine, ") \o Lit("visit the admin console")
StderrOther == Lit("backend error: invalid key")

\* ------------------------------------------------------------ status probe
\* Python values of get_tailscale_status(): None or a parsed JSON object
None == [none |-> TRUE, items |-> {}]
Dict(items) == [none |-> FALSE, items |-> items]

\* bool(value) for None and dict
Truthy(v) == ~v.none /\ v.items # {}

\* dict.get(key)
Get(v, key) ==
    IF \E kv \in v.items : kv[1] = key
    THEN (CHOOSE kv \in v.items : kv[1] = key)[2]
    ELSE "None"

BackendStates == {"NeedsLogin", "Running", "Stopped", "NoState"}

\* stdout texts of `tailscale status --json`
JsonMalformed == <<"{not valid">>
JsonEmpty == <<"{}">>
JsonStatus(b) == <<"{\"BackendState\": ", b, "}">>
JsonTexts == {JsonMalformed, JsonEmpty} \cup {JsonStatus(b) : b \in BackendStates}

\* json.loads: [ok |-> FALSE] stands for json.JSONDecodeError
json_loads(text) ==
    IF text = JsonMalformed THEN [ok |-> FALSE, value |-> None]
    ELSE IF text = JsonEmpty THEN [ok |-> TRUE, value |-> Dict({})]
    ELSE [ok |-> TRUE, value |-> Dict({<<"BackendState", text[2]>>})]

\* what subprocess.run(status cmd, timeout=10) can do
ProbeOutcomes ==
    {[kind |-> "timeout", rc |-> 0, stdout |-> JsonEmpty]}
    \cup {[kind |-> "exit", rc |-> 1, stdout |-> JsonEmpty]}
    \cup {[kind |-> "exit", rc |-> 0, stdout |-> x] : x \in JsonTexts}

\* faulty variant: the return code is not looked at before stdout is parsed
get_tailscale_status_NoRc(out) ==
    IF out.kind = "timeout" THEN [value |-> None, raised |-> TRUE]
    ELSE IF json_loads(out.stdout).ok
         THEN [value |-> json_loads(out.stdout).value, raised |-> FALSE]
         ELSE [value |-> None, raised |-> TRUE]

\* get_tailscale_status(): [value, raised], raised = an exception was caught
get_tailscale_status(out) ==
    IF out.kind = "timeout" THEN [value |-> None, raised |-> TRUE]
    ELSE IF out.rc = 0
         THEN IF json_loads(out.stdout).ok
              THEN [value |-> json_loads(out.stdout).value, raised |-> FALSE]
              ELSE [value |-> None, raised |-> TRUE]
         ELSE [value |-> None, raised |-> FALSE]

\* ------------------------------------------------------------ log and notes
LogAlready == Lit("[Tailscale] tailscaled already running")
LogStarting(c) == Lit("[Tailscale] Starting tailscaled: ") \o join(Space, c)
LogStarted == Lit("[Tailscale] tailscaled started successfully")
LogStartFailed == Lit("[Tailscale] tailscaled failed to start")
LogStartError == Lit("[Tailscale] Error starting tailscaled: ") \o Lit("<OSError>")
LogStatusError(text) == Lit("[Tailscale] Error getting status: ") \o text
LogNoStatus == Lit("[Tailscale] Cannot get status, daemon may not be running")
LogAutoLoginOff == Lit("[Tailscale] Authentication needed but auto_login disabled")
LogUsingKey == Lit("[Tailscale] Using auth key for authentication")
LogLoginOk == Lit("[Tailscale] Login successful")
LogLoginFailed(stderr) == Lit("[Tailscale] Login failed: ") \o stderr
LogLoginError(text) == Lit("[Tailscale] Error during login: ") \o text
LogStopped == Lit("[Tailscale] tailscaled stopped")
LogServiceStarting == Lit("[Tailscale] Service starting")
LogExiting == Lit("[Tailscale] Failed to start daemon, exiting")
LogDied == Lit("[Tailscale] Daemon died, restarting")
LogServiceStopped == Lit("[Tailscale] Service stopped")
LogSettingsChanged == Lit("[Tailscale] Settings changed, restarting service")

\* show_auth_notification() and the login-success notification
NoteAuthRequired ==
    << Lit("Tailscale Authentication Required"),
       Lit("Please run 'tailscale up' manually or check addon settings") >>
NoteConnected == << Lit("Tailscale"), Lit("Connected successfully") >>

\* ------------------------------------------------------------ process table
\* pgrep -f tailscaled exits 0: some tailscaled is in the process table
PgrepFinds == alive # {} \/ external

\* what subprocess.run(['pgrep', '-f', 'tailscaled']) does now: it raises
\* if pgrep cannot be executed, else pgrep exits 0 iff it finds a process
Pgrep ==
    [kind |-> IF pgrep_ok THEN "exit" ELSE "raised",
     rc |-> IF PgrepFinds THEN 0 ELSE 1]

\* is_tailscaled_running(): returncode == 0, False if the call raised
is_tailscaled_running(out) == IF out.kind = "raised" THEN FALSE ELSE out.rc = 0

\* Popen.poll() is None, for the process the handle names
PollIsNone(h) == h \in alive

\* --------------------------------------------------------------- decisions
\* faulty variant: the early return is lost, start always spawns
AlreadyRunningNever(r) == FALSE

\* start_tailscaled: `if self.is_tailscaled_running(): return True`
AlreadyRunning(r) == r

\* faulty variant: start reports success without polling the child
StartResultAlways(h) == TRUE

\* start_tailscaled: `self.tailscaled_process.poll() is None` after sleep(2)
StartResult(h) == PollIsNone(h)

\* faulty variant: login is attempted in every state but Running
NeedsLoginUnlessRunning(st) == Get(st, "BackendState") # "Running"

\* authenticate_if_needed: `status.get('BackendState') == 'NeedsLogin'`
NeedsLogin(st) == Get(st, "BackendState") = "NeedsLogin"

\* faulty variant: the presence of an auth key decides, not auto_login
AutoLoginByKey(s) == HasAuthKey(s)

\* authenticate_if_needed: `self.addon.getSetting('auto_login') == 'true'`
AutoLogin(s) == s.auto_login = "true"

\* stop_tailscale: `self.tailscaled_process and ....poll() is None`
OwnsLiveChild(h) == h # 0 /\ PollIsNone(h)

\* faulty variant: the loop restarts the daemon on every tick
DaemonDiedAlways(r) == TRUE

\* run: `if not self.is_tailscaled_running()` in the loop
DaemonDied(r) == ~r

\* faulty variant: run() does not look at what the initial start returned
AfterStartIgnoring(c, r) == "auth"

\* faulty variant: every caller gives up when start returns False
AfterStartFatal(c, r) == IF r THEN "auth" ELSE "done"

\* faulty variant: run() returns after its authentication pass
AfterAuthReturns(c) == IF c = "cb" THEN "idle" ELSE "done"

\* faulty variant: every caller starts the daemon again after a stop
AfterStopRestarts(c) == "start"

\* faulty variant: the callback goes from the stop straight to the
\* authentication pass
AfterStopSkipsStart(c) == IF c = "cb" THEN "auth" ELSE "done"

\* faulty variant: the end of an authentication pass leads to a restart
AfterAuthRestarts(c) == "start"

\* where a method returns to: c is the caller, r the value returned
AfterStart(c, r) ==
    IF c = "init" THEN (IF r THEN "auth" ELSE "done")  \* run: return on failure
    ELSE "auth"                                         \* loop, callback: ignored
AfterAuth(c) == IF c = "cb" THEN "idle" ELSE "loop_head"
AfterStop(c) == IF c = "cb" THEN "start" ELSE "done"

\* what run() itself logs when the method returns to it
RunLogAfterStart(c, r) == IF c = "init" /\ ~r THEN <<LogExiting>> ELSE <<>>
RunLogAfterStop(c) == IF c = "exit" THEN <<LogServiceStopped>> ELSE <<>>

procVars == <<tailscaled_process, alive, nextPid, external>>
envVars == <<abortRequested, settings, settingsEvents, pgrep_ok>>
localVars == <<cmd, spawned, waiting>>
tickVars == <<tickStarts, tickAlive, abortAtWait>>
scriptVars == <<wiz, rst>>
cfgVars == <<authkey_file, cfg, scriptVars>>

\* the record of a step: path, operation, how it ended, the value it
\* returned or read, the status it probed, and what the subprocess it ran did
Ev(t, op, exit, value, st, input) ==
    [path |-> t, op |-> op, exit |-> exit, value |-> value, status |-> st,
     input |-> input]

NoInput == [kind |-> "none", rc |-> 0]

\* ------------------------------------------------------------------- Init
Init ==
    /\ pc = [t \in Paths |-> IF t = "run" THEN "begin" ELSE "idle"]
    /\ ctx = [t \in Paths |-> IF t = "run" THEN "init" ELSE "cb"]
    /\ tailscaled_process = 0
    /\ alive = {}
    /\ nextPid = 1
    /\ external \in BOOLEAN
    /\ pgrep_ok \in BOOLEAN
    /\ abortRequested = FALSE
    /\ settings \in SupervisorSettings
    /\ settingsEvents = 0
    /\ cmd = [t \in Paths |-> <<>>]
    /\ spawned = [t \in Paths |-> 0]
    /\ waiting = [t \in Paths |-> 0]
    /\ tickStarts = 0
    /\ tickAlive = "none"
    /\ abortAtWait = FALSE
    /\ lastHandleOp = "other"
    /\ last = Ev("run", "__init__", "", FALSE, None, NoInput)
    /\ log = << Lit("[Tailscale] Service initialized") >>
    /\ notes = <<>>
    /\ authkey_file = [exists |-> FALSE, content |-> <<>>, mode |-> 0]
    /\ cfg = [pc |-> "off"]
    /\ wiz = [pc |-> "off"]
    /\ rst = [pc |-> "off"]

\* ------------------------------------------------------ TailscaleService.run
\* run(): entry
RunBegin ==
    /\ pc["run"] = "begin"
    /\ pc' = [pc EXCEPT !["run"] = "start"]
    /\ last' = Ev("run", "run", "begin", FALSE, None, NoInput)
    /\ log' = <<LogServiceStarting>>
    /\ notes' = <<>>
    /\ UNCHANGED <<ctx, procVars, envVars, localVars, tickVars, lastHandleOp,
                   cfgVars>>

\* start_tailscaled(): the liveness check and the early return (lines 43-47)
StartEntry(t) ==
    /\ pc[t] = "start"
    /\ LET out == Pgrep
           r == is_tailscaled_running(out)
       IN
       IF AlreadyRunning(r)
       THEN /\ last' = Ev(t, "start_tailscaled", "already", TRUE, None, out)
            /\ pc' = [pc EXCEPT ![t] = AfterStart(ctx[t], TRUE)]
            /\ log' = <<LogAlready>>
       ELSE /\ last' = Ev(t, "start_tailscaled", "checked", FALSE, None, out)
            /\ pc' = [pc EXCEPT ![t] = "start_popen"]
            /\ log' = <<>>
    /\ tickStarts' = IF t = "run" /\ ctx[t] = "loop"
                     THEN tickStarts + 1 ELSE tickStarts
    /\ lastHandleOp' = "other"
    /\ notes' = <<>>
    /\ UNCHANGED <<ctx, procVars, envVars, localVars, tickAlive, abortAtWait,
                   cfgVars>>

\* start_tailscaled(): build the command and Popen it; an exception of Popen
\* is caught and start returns False (lines 49-64, 76-78)
StartSpawn(t) ==
    /\ pc[t] = "start_popen"
    /\ \E popenOk \in BOOLEAN :
        LET c == DaemonCmd(settings) IN
        IF popenOk /\ nextPid <= MaxProcs
        THEN /\ tailscaled_process' = nextPid
             /\ alive' = alive \cup {nextPid}
             /\ nextPid' = nextPid + 1
             /\ spawned' = [spawned EXCEPT ![t] = nextPid]
             /\ last' = Ev(t, "start_tailscaled", "spawned", FALSE, None,
                           NoInput)
             /\ pc' = [pc EXCEPT ![t] = "start_sleep"]
             /\ log' = <<LogStarting(c)>>
             /\ UNCHANGED external
        ELSE /\ last' = Ev(t, "start_tailscaled", "popen_failed", FALSE, None,
                           NoInput)
             /\ pc' = [pc EXCEPT ![t] = AfterStart(ctx[t], FALSE)]
             /\ log' = <<LogStarting(c), LogStartError>>
                       \o RunLogAfterStart(ctx[t], FALSE)
             /\ UNCHANGED <<procVars, spawned>>
    /\ notes' = <<>>
    /\ UNCHANGED <<ctx, envVars, cmd, waiting, tickVars, lastHandleOp, cfgVars>>

\* start_tailscaled(): after time.sleep(2), poll the handle (lines 67-74)
StartPoll(t) ==
    /\ pc[t] = "start_sleep"
    /\ LET r == StartResult(tailscaled_process) IN
        /\ last' = Ev(t, "start_tailscaled", "polled", r, None, NoInput)
        /\ pc' = [pc EXCEPT ![t] = AfterStart(ctx[t], r)]
        /\ log' = << IF r THEN LogStarted ELSE LogStartFailed >>
                  \o RunLogAfterStart(ctx[t], r)
    /\ spawned' = [spawned EXCEPT ![t] = 0]
    /\ notes' = <<>>
    /\ UNCHANGED <<ctx, procVars, envVars, cmd, waiting, tickVars,
                   lastHandleOp, cfgVars>>

\* what subprocess.run(login cmd, timeout=60) can do
LoginOutcomes ==
    {[kind |-> "timeout", rc |-> 0, stderr |-> <<>>],
     [kind |-> "exit", rc |-> 0, stderr |-> <<>>],
     [kind |-> "exit", rc |-> 1, stderr |-> StderrApproval],
     [kind |-> "exit", rc |-> 1, stderr |-> StderrOther]}

\* login: `"visit the admin console" in result.stderr`
MentionsAdminConsole(stderr) == Contains(stderr, Lit("visit the admin console"))

\* authenticate_if_needed(): probe, decide, and build the login command
\* (lines 104-118 with get_tailscale_status 89-102 and login 120-146)
Auth(t) ==
    /\ pc[t] = "auth"
    /\ \E out \in ProbeOutcomes :
        LET got == get_tailscale_status(out)
            st == got.value
            probeLog == IF got.raised
                        THEN <<LogStatusError(Lit("<exception>"))>> ELSE <<>>
            c == LoginCmd(settings)
        IN
        IF ~Truthy(st)
        THEN /\ last' = Ev(t, "authenticate_if_needed", "no_status", FALSE, st, out)
             /\ pc' = [pc EXCEPT ![t] = AfterAuth(ctx[t])]
             /\ log' = probeLog \o <<LogNoStatus>>
             /\ notes' = <<>>
             /\ UNCHANGED cmd
        ELSE IF NeedsLogin(st)
        THEN IF AutoLogin(settings)
             THEN /\ last' = Ev(t, "authenticate_if_needed", "login", FALSE, st, out)
                  /\ cmd' = [cmd EXCEPT ![t] = c]
                  /\ pc' = [pc EXCEPT ![t] = "login_run"]
                  /\ log' = (IF HasAuthKey(settings)
                             THEN <<LogUsingKey>> ELSE <<>>)
                            \o <<LoginLogLine(c)>>
                  /\ notes' = <<>>
             ELSE /\ last' = Ev(t, "authenticate_if_needed", "manual", FALSE, st, out)
                  /\ pc' = [pc EXCEPT ![t] = AfterAuth(ctx[t])]
                  /\ log' = <<LogAutoLoginOff>>
                  /\ notes' = <<NoteAuthRequired>>
                  /\ UNCHANGED cmd
        ELSE /\ last' = Ev(t, "authenticate_if_needed", "not_needed", FALSE, st, out)
             /\ pc' = [pc EXCEPT ![t] = AfterAuth(ctx[t])]
             /\ log' = <<>>
             /\ notes' = <<>>
             /\ UNCHANGED cmd
    /\ UNCHANGED <<ctx, procVars, envVars, spawned, waiting, tickVars,
                   lastHandleOp, cfgVars>>

\* login(): the `tailscale up` subprocess ends (lines 148-162)
LoginRun(t) ==
    /\ pc[t] = "login_run"
    /\ \E res \in LoginOutcomes :
        IF res.kind = "timeout"
        THEN /\ last' = Ev(t, "login", "error", FALSE, None, res)
             /\ log' = <<LogLoginError(TimeoutText(cmd[t], "60"))>>
             /\ notes' = <<>>
        ELSE IF res.rc = 0
        THEN /\ last' = Ev(t, "login", "ok", TRUE, None, res)
             /\ log' = <<LogLoginOk>>
             /\ notes' = <<NoteConnected>>
        ELSE /\ last' = Ev(t, "login", "failed", FALSE, None, res)
             /\ log' = <<LogLoginFailed(res.stderr)>>
             /\ notes' = IF MentionsAdminConsole(res.stderr)
                         THEN <<NoteAuthRequired>> ELSE <<>>
    /\ cmd' = [cmd EXCEPT ![t] = <<>>]
    /\ pc' = [pc EXCEPT ![t] = AfterAuth(ctx[t])]
    /\ UNCHANGED <<ctx, procVars, envVars, spawned, waiting, tickVars,
                   lastHandleOp, cfgVars>>

\* run(): `while not self.monitor.abortRequested()`; the tick is over
LoopHead ==
    /\ pc["run"] = "loop_head"
    /\ IF abortRequested
       THEN /\ pc' = [pc EXCEPT !["run"] = "stop"]
            /\ ctx' = [ctx EXCEPT !["run"] = "exit"]
       ELSE /\ pc' = [pc EXCEPT !["run"] = "wait"]
            /\ ctx' = [ctx EXCEPT !["run"] = "loop"]
    /\ last' = Ev("run", "run", "loop_head", abortRequested, None, NoInput)
    /\ tickStarts' = 0
    /\ tickAlive' = "none"
    /\ log' = <<>>
    /\ notes' = <<>>
    /\ UNCHANGED <<procVars, envVars, localVars, abortAtWait, lastHandleOp,
                   cfgVars>>

\* run(): waitForAbort(30) returns True: break
WaitAborted ==
    /\ pc["run"] = "wait"
    /\ abortRequested
    /\ pc' = [pc EXCEPT !["run"] = "stop"]
    /\ ctx' = [ctx EXCEPT !["run"] = "exit"]
    /\ last' = Ev("run", "run", "wait_aborted", TRUE, None, NoInput)
    /\ log' = <<>>
    /\ notes' = <<>>
    /\ UNCHANGED <<procVars, envVars, localVars, tickVars, lastHandleOp,
                   cfgVars>>

\* faulty variant: a plain sleep, which does not see the abort
WaitExpiresAnyway == TRUE

\* run(): waitForAbort(30) returns False only if no abort is requested
WaitExpires == ~abortRequested

\* run(): waitForAbort(30) times out, then the liveness check of the tick
Tick ==
    /\ pc["run"] = "wait"
    /\ WaitExpires
    /\ LET out == Pgrep
            r == is_tailscaled_running(out)
        IN
        /\ last' = Ev("run", "run", "tick", r, None, out)
        /\ tickAlive' = IF r THEN "alive" ELSE "dead"
        /\ IF DaemonDied(r)
           THEN /\ pc' = [pc EXCEPT !["run"] = "start"]
                /\ log' = <<LogDied>>
           ELSE /\ pc' = [pc EXCEPT !["run"] = "loop_head"]
                /\ log' = <<>>
    /\ tickStarts' = 0
    /\ notes' = <<>>
    /\ UNCHANGED <<ctx, procVars, envVars, localVars, abortAtWait,
                   lastHandleOp, cfgVars>>

\* stop_tailscale(): check the handle and terminate() (lines 181-184)
StopEntry(t) ==
    /\ pc[t] = "stop"
    /\ IF OwnsLiveChild(tailscaled_process)
       THEN /\ waiting' = [waiting EXCEPT ![t] = tailscaled_process]
            /\ last' = Ev(t, "stop_tailscale", "terminate", FALSE, None, NoInput)
            /\ pc' = [pc EXCEPT ![t] = "stop_wait"]
            /\ log' = <<>>
            /\ UNCHANGED lastHandleOp
       ELSE /\ last' = Ev(t, "stop_tailscale", "noop", FALSE, None, NoInput)
            /\ lastHandleOp' = "stop"
            /\ pc' = [pc EXCEPT ![t] = AfterStop(ctx[t])]
            /\ log' = RunLogAfterStop(ctx[t])
            /\ UNCHANGED waiting
    /\ notes' = <<>>
    /\ UNCHANGED <<ctx, procVars, envVars, cmd, spawned, tickVars, cfgVars>>

\* stop_tailscale(): wait(timeout=10) returns, or raises TimeoutExpired,
\* which the bare except swallows (lines 185-188)
StopWait(t) ==
    /\ pc[t] = "stop_wait"
    /\ IF waiting[t] \notin alive
       THEN /\ last' = Ev(t, "stop_tailscale", "exited", FALSE, None, NoInput)
            /\ log' = <<LogStopped>> \o RunLogAfterStop(ctx[t])
       ELSE /\ last' = Ev(t, "stop_tailscale", "timeout", FALSE, None, NoInput)
            /\ log' = RunLogAfterStop(ctx[t])
    /\ lastHandleOp' = IF tailscaled_process = waiting[t]
                       THEN "stop" ELSE lastHandleOp
    /\ waiting' = [waiting EXCEPT ![t] = 0]
    /\ pc' = [pc EXCEPT ![t] = AfterStop(ctx[t])]
    /\ notes' = <<>>
    /\ UNCHANGED <<ctx, procVars, envVars, cmd, spawned, tickVars, cfgVars>>

\* ------------------------------------------------ Monitor.onSettingsChanged
\* The settings store changes and Kodi calls onSettingsChanged(): the
\* callback logs and goes on to stop_tailscale() (lines 228-232)
SettingsChanged(t) ==
    /\ pc[t] = "idle"
    /\ pc["run"] # "done"
    /\ settingsEvents < MaxSettingsEvents
    /\ settingsEvents' = settingsEvents + 1
    /\ settings' \in SupervisorSettings
    /\ pc' = [pc EXCEPT ![t] = "stop"]
    /\ last' = Ev(t, "onSettingsChanged", "begin", FALSE, None, NoInput)
    /\ log' = <<LogSettingsChanged>>
    /\ notes' = <<>>
    /\ UNCHANGED <<ctx, procVars, abortRequested, pgrep_ok, localVars,
                   tickVars, lastHandleOp, cfgVars>>

\* -------------------------------------------------------------- environment
EnvStep(name) ==
    /\ last' = Ev("env", name, "", FALSE, None, NoInput)
    /\ log' = <<>>
    /\ notes' = <<>>
    /\ UNCHANGED <<pc, ctx, tailscaled_process, nextPid, settings,
                   settingsEvents, pgrep_ok, localVars, tickStarts, tickAlive,
                   lastHandleOp, cfgVars>>

\* A spawned daemon leaves the process table: it exits by itself, honours
\* SIGTERM, or is killed from outside
ProcExit(p) ==
    /\ p \in alive
    /\ alive' = alive \ {p}
    /\ EnvStep("exit")
    /\ UNCHANGED <<external, abortRequested, abortAtWait>>

\* A tailscaled not spawned by the service starts or stops
ExternalToggle ==
    /\ external' = ~external
    /\ EnvStep("external")
    /\ UNCHANGED <<alive, abortRequested, abortAtWait>>

\* Kodi requests abort (shutdown, add-on disabled)
RequestAbort ==
    /\ ~abortRequested
    /\ abortRequested' = TRUE
    /\ abortAtWait' = (pc["run"] = "wait")
    /\ EnvStep("abort")
    /\ UNCHANGED <<alive, external>>

Next ==
    \/ RunBegin
    \/ \E t \in Paths : StartEntry(t)
    \/ \E t \in Paths : StartSpawn(t)
    \/ \E t \in Paths : StartPoll(t)
    \/ \E t \in Paths : Auth(t)
    \/ \E t \in Paths : LoginRun(t)
    \/ LoopHead
    \/ WaitAborted
    \/ Tick
    \/ \E t \in Paths : StopEntry(t)
    \/ \E t \in Paths : StopWait(t)
    \/ \E t \in CbPaths : SettingsChanged(t)
    \/ \E p \in Pids : ProcExit(p)
    \/ ExternalToggle
    \/ RequestAbort

Spec == Init /\ [][Next]_vars

\* ------------------------------------------------- TailscaleConfigService
\* The settings of service.tailscale-config (getSettingBool/getSettingString)
ExitNodes == {<<>>, <<"n", "1">>}
Routes == {<<>>, <<"1", "0", ".", "0", "/", "8">>}

ConfigSettingsSpace ==
    [enabled : BOOLEAN, authkey : {<<>>, KeyBlank, KeyTskey, KeyPadded},
     accept_routes : BOOLEAN, exit_node : ExitNodes, hostname : Hostnames,
     advertise_routes : Routes, ssh_enabled : BOOLEAN]

\* The authkey file as an earlier run can have left it
AuthkeyFiles ==
    {[exists |-> FALSE, content |-> <<>>, mode |-> 0],
     [exists |-> TRUE, content |-> KeyPlain, mode |-> 384],
     [exists |-> TRUE, content |-> KeyPlain, mode |-> 420]}

PyBool(b) == IF b THEN Lit("True") ELSE Lit("False")

\* self.log(message)
ConfigLog(message) == Lit("[Tailscale Config] ") \o message

\* faulty variant: only the enabled flag is looked at
ConfigDisabledByFlag(enabled, authkey) == ~enabled

\* apply_settings: `if not enabled or not authkey`
ConfigDisabled(enabled, authkey) == ~enabled \/ authkey = <<>>

\* apply_settings: cmd_parts (lines 62-78)
ConfigCmdParts(authkey, accept_routes, exit_node, hostname, advertise, ssh) ==
    << Lit("/storage/.kodi/addons/service.tailscale/bin/tailscale"), Lit("up"),
       Lit("--authkey=") \o authkey >>
    \o (IF accept_routes THEN << Lit("--accept-routes") >> ELSE <<>>)
    \o (IF exit_node # <<>> THEN << Lit("--exit-node=") \o exit_node >> ELSE <<>>)
    \o (IF hostname # <<>> THEN << Lit("--hostname=") \o hostname >> ELSE <<>>)
    \o (IF advertise # <<>>
        THEN << Lit("--advertise-routes=") \o advertise >> ELSE <<>>)
    \o (IF ssh THEN << Lit("--ssh") >> ELSE <<>>)

\* apply_settings: the line logged before the command runs (line 90)
ConfigRunningLine(c) == ConfigLog(Lit("Running: ") \o c)

OwnerOnly == 384    \* 0o600

\* apply_settings(): read the settings; disable, or write the authkey file,
\* build the command and start it (lines 35-91)
ApplySettings ==
    /\ cfg.pc = "apply"
    /\ LET enabled == cfg.s.enabled
           authkey == strip(cfg.s.authkey)
           exit_node == strip(cfg.s.exit_node)
           hostname == strip(cfg.s.hostname)
           advertise == strip(cfg.s.advertise_routes)
           c == join(Space, ConfigCmdParts(authkey, cfg.s.accept_routes,
                        exit_node, hostname, advertise, cfg.s.ssh_enabled))
           applying == ConfigLog(Lit("Applying settings - Enabled: ")
                           \o PyBool(enabled) \o Lit(", Has authkey: ")
                           \o PyBool(authkey # <<>>))
       IN
       IF ConfigDisabled(enabled, authkey)
       THEN /\ authkey_file' = [exists |-> FALSE, content |-> <<>>, mode |-> 0]
            /\ cfg' = [cfg EXCEPT !.pc = "wait"]
            /\ last' = Ev("config", "apply_settings", "disabled",
                         authkey_file.exists, None, NoInput)
            /\ log' = << applying,
                         ConfigLog(Lit("Disabling Tailscale service")) >>
       ELSE /\ authkey_file' = [exists |-> TRUE, content |-> authkey,
                                mode |-> OwnerOnly]
            /\ cfg' = [cfg EXCEPT !.pc = "up", !.cmd = c]
            /\ last' = Ev("config", "apply_settings", "up", FALSE, None, NoInput)
            /\ log' = << applying,
                         ConfigLog(Lit("Enabling Tailscale service")),
                         ConfigRunningLine(c) >>
    /\ notes' = <<>>
    /\ UNCHANGED <<pc, ctx, procVars, envVars, localVars, tickVars,
                   lastHandleOp, scriptVars>>

\* what run_command(cmd) returns for the `tailscale up` command line
ConfigUpOutcomes ==
    {[success |-> TRUE, stderr |-> <<>>],
     [success |-> FALSE, stderr |-> StderrOther]}

\* apply_settings(): the command ended; log and notify (lines 93-98)
ApplyResult ==
    /\ cfg.pc = "up"
    /\ \E res \in ConfigUpOutcomes :
        IF res.success
        THEN /\ last' = Ev("config", "apply_settings", "ok", TRUE, None, NoInput)
             /\ log' = << ConfigLog(Lit("Tailscale configured successfully")) >>
             /\ notes' = << << Lit("Tailscale"),
                               Lit("Configuration applied successfully") >> >>
        ELSE /\ last' = Ev("config", "apply_settings", "failed", FALSE, None, NoInput)
             /\ log' = << ConfigLog(Lit("Tailscale configuration failed: ")
                                    \o res.stderr) >>
             /\ notes' = << << Lit("Tailscale"),
                               Lit("Configuration failed: ") \o res.stderr
                               \o Lit("...") >> >>
    /\ cfg' = [cfg EXCEPT !.pc = "wait", !.cmd = <<>>]
    /\ UNCHANGED <<pc, ctx, procVars, envVars, localVars, tickVars,
                   lastHandleOp, authkey_file, scriptVars>>

\* TailscaleConfigService.run(): waitForAbort(10) returns True
ConfigStop ==
    /\ cfg.pc = "wait"
    /\ cfg' = [cfg EXCEPT !.pc = "stopped"]
    /\ last' = Ev("config", "run", "stopped", FALSE, None, NoInput)
    /\ log' = << ConfigLog(Lit("Tailscale Configuration Service stopped")) >>
    /\ notes' = <<>>
    /\ UNCHANGED <<pc, ctx, procVars, envVars, localVars, tickVars,
                   lastHandleOp, authkey_file, scriptVars>>

\* restart.py main(): a fresh TailscaleConfigService applies the settings
\* the store holds now
ConfigRestart ==
    /\ cfg.pc = "wait"
    /\ cfg.restarts < MaxRestarts
    /\ \E s \in ConfigSettingsSpace :
        cfg' = [cfg EXCEPT !.pc = "apply", !.s = s,
                           !.restarts = cfg.restarts + 1]
    /\ last' = Ev("config", "restart", "begin", FALSE, None, NoInput)
    /\ log' = <<>>
    /\ notes' = <<>>
    /\ UNCHANGED <<pc, ctx, procVars, envVars, localVars, tickVars,
                   lastHandleOp, authkey_file, scriptVars>>

InitConfig ==
    /\ pc = [t \in Paths |-> "off"]
    /\ ctx = [t \in Paths |-> "off"]
    /\ tailscaled_process = 0
    /\ alive = {}
    /\ nextPid = 1
    /\ external = FALSE
    /\ pgrep_ok = TRUE
    /\ abortRequested = FALSE
    /\ settings \in {s \in SupervisorSettings :
                        s.auto_login = "false" /\ s.auth_key = <<>>}
    /\ settingsEvents = 0
    /\ cmd = [t \in Paths |-> <<>>]
    /\ spawned = [t \in Paths |-> 0]
    /\ waiting = [t \in Paths |-> 0]
    /\ tickStarts = 0
    /\ tickAlive = "none"
    /\ abortAtWait = FALSE
    /\ lastHandleOp = "other"
    /\ last = Ev("config", "__init__", "", FALSE, None, NoInput)
    /\ log = << ConfigLog(Lit("Tailscale Configuration Service started")) >>
    /\ notes = <<>>
    /\ authkey_file \in AuthkeyFiles
    /\ \E s \in ConfigSettingsSpace :
        cfg = [pc |-> "apply", s |-> s, cmd |-> <<>>, restarts |-> 0]
    /\ wiz = [pc |-> "off"]
    /\ rst = [pc |-> "off"]

NextConfig == ApplySettings \/ ApplyResult \/ ConfigStop \/ ConfigRestart

SpecConfig == InitConfig /\ [][NextConfig]_vars

\* ------------------------------------------------------ the option surface
\* The options a settings store can hold for the login command: auth key,
\* accept-routes, accept-dns, hostname, exit-node, advertised routes, ssh
LoginOptions ==
    [auth_key : {<<>>, KeyBlank, KeyTskey}, accept_routes : BOOLEAN,
     accept_dns : BOOLEAN, hostname : Hostnames, exit_node : ExitNodes,
     advertise_routes : Routes, ssh : BOOLEAN]

\* a bool setting as addon.getSetting() returns it
BoolSetting(b) == IF b THEN "true" ELSE "false"

\* the store of service.tailscale holding the options o
SupervisorStore(o) ==
    [auto_login |-> "true", auth_key |-> o.auth_key,
     accept_routes |-> BoolSetting(o.accept_routes),
     accept_dns |-> BoolSetting(o.accept_dns), hostname |-> o.hostname,
     daemon_port |-> <<>>, exit_node |-> o.exit_node,
     advertise_routes |-> o.advertise_routes,
     ssh_enabled |-> BoolSetting(o.ssh)]

\* the store of service.tailscale-config holding the options o
ConfigStore(o) ==
    [enabled |-> TRUE, authkey |-> o.auth_key,
     accept_routes |-> o.accept_routes, accept_dns |-> o.accept_dns,
     exit_node |-> o.exit_node, hostname |-> o.hostname,
     advertise_routes |-> o.advertise_routes, ssh_enabled |-> o.ssh]

\* Both services on stores that hold the same options: the supervisor is at
\* its authentication pass, the configuration service at apply_settings()
InitFlags ==
    /\ pc = [t \in Paths |-> IF t = "run" THEN "auth" ELSE "off"]
    /\ ctx = [t \in Paths |-> IF t = "run" THEN "init" ELSE "off"]
    /\ tailscaled_process = 1
    /\ alive = {1}
    /\ nextPid = 2
    /\ external = FALSE
    /\ pgrep_ok = TRUE
    /\ abortRequested = FALSE
    /\ settingsEvents = 0
    /\ cmd = [t \in Paths |-> <<>>]
    /\ spawned = [t \in Paths |-> 0]
    /\ waiting = [t \in Paths |-> 0]
    /\ tickStarts = 0
    /\ tickAlive = "none"
    /\ abortAtWait = FALSE
    /\ lastHandleOp = "other"
    /\ last = Ev("run", "start_tailscaled", "polled", TRUE, None, NoInput)
    /\ log = <<LogStarted>>
    /\ notes = <<>>
    /\ authkey_file = [exists |-> FALSE, content |-> <<>>, mode |-> 0]
    /\ \E o \in LoginOptions :
        /\ settings = SupervisorStore(o)
        /\ cfg = [pc |-> "apply", s |-> ConfigStore(o), cmd |-> <<>>,
                  restarts |-> 0]
    /\ wiz = [pc |-> "off"]
    /\ rst = [pc |-> "off"]

NextFlags == Auth("run") \/ LoginRun("run") \/ ApplySettings \/ ApplyResult

SpecFlags == InitFlags /\ [][NextFlags]_vars

\* --------------------------------------------------------- RavenSetupWizard
MaxWizardRuns == 2      \* runs of the setup wizard in one behaviour

\* addon.setSetting(key, value) on a settings store
setSetting(store, key, value) ==
    [k \in DOMAIN store \cup {key} |-> IF k = key THEN value ELSE store[k]]

\* what the user can type into the dialogs
HttpScheme == Lit("http://")
ServerInputs == {<<>>, <<"j", "f">>, HttpScheme \o <<"j", "f">>}
UsernameInputs == {<<>>, <<"u", "s", "r">>}
PasswordInputs == {<<>>, <<"p", "w", "9">>}
AuthkeyInputs == {<<>>, KeyTskey}
HostnameInputs == {<<>>, <<"p", "i">>}

\* get_hostname(): the name the system reports, or a generated one
DefaultHostnames == {<<"r", "v">>, Lit("LibreELEC-Raven")}

\* get_jellyfin_config: a server without scheme gets 'http://'
NormalizeServer(server) ==
    IF startswith(server, HttpScheme) \/ startswith(server, Lit("https://"))
    THEN server ELSE HttpScheme \o server

\* __init__: self.config
WizardConfig(hostname) ==
    [jellyfin_server |-> <<>>, jellyfin_username |-> <<>>,
     jellyfin_password |-> <<>>, tailscale_authkey |-> <<>>,
     device_hostname |-> hostname]

\* faulty variant: json.dump(self.config), the whole of it
SafeConfigTextWithSecrets(c) ==
    Lit("{\"jellyfin_server\": \"") \o c.jellyfin_server
    \o Lit("\", \"jellyfin_username\": \"") \o c.jellyfin_username
    \o Lit("\", \"jellyfin_password\": \"") \o c.jellyfin_password
    \o Lit("\", \"tailscale_authkey\": \"") \o c.tailscale_authkey
    \o Lit("\", \"device_hostname\": \"") \o c.device_hostname
    \o Lit("\"}")

\* save_config: json.dump(safe_config) as the text of raven-config.json
SafeConfigText(c) ==
    Lit("{\"jellyfin_server\": \"") \o c.jellyfin_server
    \o Lit("\", \"jellyfin_username\": \"") \o c.jellyfin_username
    \o Lit("\", \"device_hostname\": \"") \o c.device_hostname
    \o Lit("\", \"setup_completed\": true, \"setup_date\": \"")
    \o Lit("<now>") \o Lit("\"}")

\* the titles of the dialogs run_setup shows
DlgWelcome == Lit("Project-Raven Setup Wizard")
DlgCancelled == Lit("Setup Cancelled")
DlgError == Lit("Setup Error")
DlgWarning == Lit("Setup Warning")
DlgComplete == Lit("Setup Complete")

wizFrame == <<pc, ctx, procVars, abortRequested, settingsEvents, pgrep_ok,
              localVars, tickVars, lastHandleOp, authkey_file, cfg, rst>>

\* a step of run_setup: where it goes, how the run ended if it did, the
\* dialog and the log line of the step
WizardStep(to, exit, dialog, line) ==
    /\ last' = Ev("wizard", "run_setup", exit, FALSE, None, NoInput)
    /\ log' = IF line = <<>> THEN <<>> ELSE <<line>>
    /\ notes' = IF dialog = <<>> THEN <<>> ELSE << <<dialog, <<>> >> >>
    /\ wiz'.pc = to

\* run_setup(): the marker check (lines 302-307)
WizardBegin ==
    /\ wiz.pc = "begin"
    /\ IF wiz.marker
       THEN /\ wiz' = [wiz EXCEPT !.pc = "done", !.exit = "skipped"]
            /\ WizardStep("done", "skipped", <<>>,
                          Lit("Setup already completed, skipping wizard"))
       ELSE /\ wiz' = [wiz EXCEPT !.pc = "welcome"]
            /\ WizardStep("welcome", "", <<>>,
                          Lit("Starting Project-Raven setup wizard"))
    /\ UNCHANGED <<wizFrame, settings>>

\* run_setup(): the welcome dialog (lines 309-315)
WizardWelcome ==
    /\ wiz.pc = "welcome"
    /\ \E yes \in BOOLEAN :
        IF yes
        THEN /\ wiz' = [wiz EXCEPT !.pc = "jellyfin",
                                   !.steps = @ \cup {"welcome"}]
             /\ WizardStep("jellyfin", "", DlgWelcome, <<>>)
        ELSE /\ wiz' = [wiz EXCEPT !.pc = "done", !.exit = "declined"]
             /\ WizardStep("done", "declined", DlgWelcome,
                           Lit("User declined setup wizard"))
    /\ UNCHANGED <<wizFrame, settings>>

\* get_jellyfin_config() and the cancel branch (lines 74-116, 319-321)
WizardJellyfin ==
    /\ wiz.pc = "jellyfin"
    /\ \E raised \in BOOLEAN, server \in ServerInputs,
          username \in UsernameInputs, password \in PasswordInputs :
        LET c1 == [wiz.config EXCEPT !.jellyfin_server = NormalizeServer(server)]
            c2 == [c1 EXCEPT !.jellyfin_username = username]
            c3 == [c2 EXCEPT !.jellyfin_password = password]
            got == IF server = <<>> THEN wiz.config
                   ELSE IF username = <<>> THEN c1
                   ELSE IF password = <<>> THEN c2 ELSE c3
            ok == server # <<>> /\ username # <<>> /\ password # <<>>
        IN
        IF raised
        THEN /\ wiz' = [wiz EXCEPT !.pc = "except"]
             /\ WizardStep("except", "", <<>>, <<>>)
        ELSE IF ok
        THEN /\ wiz' = [wiz EXCEPT !.pc = "tailscale", !.config = got,
                                   !.steps = @ \cup {"inputs"}]
             /\ WizardStep("tailscale", "", <<>>, <<>>)
        ELSE /\ wiz' = [wiz EXCEPT !.pc = "done", !.exit = "cancelled",
                                   !.config = got]
             /\ WizardStep("done", "cancelled", DlgCancelled, <<>>)
    /\ UNCHANGED <<wizFrame, settings>>

\* get_tailscale_config() (lines 118-154, 323-325)
WizardTailscale ==
    /\ wiz.pc = "tailscale"
    /\ \E raised \in BOOLEAN, authkey \in AuthkeyInputs,
          hostname \in HostnameInputs :
        IF raised
        THEN /\ wiz' = [wiz EXCEPT !.pc = "except"]
             /\ WizardStep("except", "", <<>>, <<>>)
        ELSE /\ wiz' = [wiz EXCEPT
                          !.pc = "progress",
                          !.config.tailscale_authkey = authkey,
                          !.config.device_hostname =
                              IF hostname # <<>> THEN hostname ELSE @]
             /\ WizardStep("progress", "", Lit("Tailscale Setup"), <<>>)
    /\ UNCHANGED <<wizFrame, settings>>

\* progress.create(...) and progress.update(25, ...) (lines 328-331)
WizardProgress ==
    /\ wiz.pc = "progress"
    /\ \E raised \in BOOLEAN :
        IF raised
        THEN /\ wiz' = [wiz EXCEPT !.pc = "except", !.progress = "open"]
             /\ WizardStep("except", "", <<>>, <<>>)
        ELSE /\ wiz' = [wiz EXCEPT !.pc = "cfg_jellyfin", !.progress = "open"]
             /\ WizardStep("cfg_jellyfin", "", <<>>, <<>>)
    /\ UNCHANGED <<wizFrame, settings>>

\* run_setup(): `if not self.configure_jellyfin(): ... return`
\* (lines 332-334)
AfterConfigureJellyfin(ok) == IF ok THEN "cfg_tailscale" ELSE "done"

\* configure_jellyfin() and its failure branch (lines 156-185, 332-334)
WizardConfigureJellyfin ==
    /\ wiz.pc = "cfg_jellyfin"
    /\ \E ok \in BOOLEAN :
        LET to == AfterConfigureJellyfin(ok)
            exit == IF to = "done" THEN "jellyfin_failed" ELSE ""
        IN
        /\ wiz' = [wiz EXCEPT
                     !.pc = to,
                     !.exit = exit,
                     !.steps = IF ok THEN @ \cup {"jellyfin"} ELSE @,
                     !.jellyfin = IF ok
                                  THEN [server_url |-> wiz.config.jellyfin_server,
                                        username |-> wiz.config.jellyfin_username]
                                  ELSE @]
        /\ WizardStep(to, exit, IF to = "done" THEN DlgError ELSE <<>>,
                      IF ok THEN Lit("Configuring Jellyfin add-on...")
                      ELSE Lit("Error configuring Jellyfin: ") \o Lit("<exception>"))
    /\ UNCHANGED <<wizFrame, settings>>

\* what configure_tailscale() can meet: the add-on is missing (nothing is
\* written), everything works, or the hostname fallback file cannot be
\* written after the settings were set
TailscaleConfigOutcomes == {"ok", "no_addon", "hostname_failed"}

\* configure_tailscale: the setSetting calls on service.tailscale
\* (lines 193-201)
WizardTailscaleSettings(store, c) ==
    LET s1 == setSetting(store, "device_hostname", c.device_hostname) IN
    IF c.tailscale_authkey # <<>>
    THEN setSetting(setSetting(s1, "auth_key", c.tailscale_authkey),
                    "auto_login", "true")
    ELSE s1

\* faulty variant: a failed configure_tailscale() does not end the run
AfterConfigureTailscaleIgnoring(ok) == "theme"

\* run_setup(): `if not self.configure_tailscale(): ... return`
\* (lines 337-339)
AfterConfigureTailscale(ok) == IF ok THEN "theme" ELSE "done"

\* progress.update(50, ...), configure_tailscale() and its failure branch
\* (lines 187-220, 336-339)
WizardConfigureTailscale ==
    /\ wiz.pc = "cfg_tailscale"
    /\ \E raised \in BOOLEAN, out \in TailscaleConfigOutcomes :
        IF raised
        THEN /\ wiz' = [wiz EXCEPT !.pc = "except"]
             /\ WizardStep("except", "", <<>>, <<>>)
             /\ UNCHANGED settings
        ELSE LET ok == out = "ok"
                 wrote == out # "no_addon"
                 to == AfterConfigureTailscale(ok)
                 exit == IF to = "done" THEN "tailscale_failed" ELSE ""
             IN
             /\ wiz' = [wiz EXCEPT
                          !.pc = to,
                          !.exit = exit,
                          !.steps = IF ok THEN @ \cup {"tailscale"} ELSE @,
                          !.ts_hostname = IF wrote THEN wiz.config.device_hostname
                                          ELSE @]
             /\ settings' = IF wrote
                            THEN WizardTailscaleSettings(settings, wiz.config)
                            ELSE settings
             /\ WizardStep(to, exit, IF to = "done" THEN DlgError ELSE <<>>,
                           IF ok THEN Lit("Configuring Tailscale add-on...")
                           ELSE Lit("Error configuring Tailscale: ")
                                \o Lit("<exception>"))
    /\ UNCHANGED wizFrame

\* progress.update(75, ...) and configure_theme(), whose failure only shows
\* a warning (lines 222-240, 341-343)
WizardTheme ==
    /\ wiz.pc = "theme"
    /\ \E raised \in BOOLEAN, ok \in BOOLEAN :
        IF raised
        THEN /\ wiz' = [wiz EXCEPT !.pc = "except"]
             /\ WizardStep("except", "", <<>>, <<>>)
        ELSE /\ wiz' = [wiz EXCEPT !.pc = "save"]
             /\ WizardStep("save", "", IF ok THEN <<>> ELSE DlgWarning,
                           Lit("Configuring Copacetic theme..."))
    /\ UNCHANGED <<wizFrame, settings>>

\* progress.update(90, ...), save_config() and mark_setup_complete(): both
\* catch their own errors and run_setup ignores what they return
\* (lines 242-272, 345-347)
WizardSave ==
    /\ wiz.pc = "save"
    /\ \E raised \in BOOLEAN, saved \in BOOLEAN, marked \in BOOLEAN :
        IF raised
        THEN /\ wiz' = [wiz EXCEPT !.pc = "except"]
             /\ WizardStep("except", "", <<>>, <<>>)
        ELSE /\ wiz' = [wiz EXCEPT
                          !.pc = "finish",
                          !.config_file = IF saved THEN SafeConfigText(wiz.config)
                                          ELSE @,
                          !.marker = @ \/ marked]
             /\ WizardStep("finish", "", <<>>,
                           IF saved THEN <<>>
                           ELSE Lit("Error saving config: ") \o Lit("<exception>"))
    /\ UNCHANGED <<wizFrame, settings>>

\* where a call of the host can raise in the last part of run_setup
FinishOutcomes == {"ok", "update_raised", "dialog_raised"}

\* progress.update(100, ...), progress.close(), the completion dialog and
\* RestartApp (lines 349-356)
WizardFinish ==
    /\ wiz.pc = "finish"
    /\ \E out \in FinishOutcomes :
        IF out = "update_raised"
        THEN /\ wiz' = [wiz EXCEPT !.pc = "except"]
             /\ WizardStep("except", "", <<>>, <<>>)
        ELSE IF out = "dialog_raised"
        THEN /\ wiz' = [wiz EXCEPT !.pc = "except", !.progress = "closed"]
             /\ WizardStep("except", "", <<>>, <<>>)
        ELSE /\ wiz' = [wiz EXCEPT !.pc = "done", !.exit = "success",
                                   !.progress = "closed"]
             /\ WizardStep("done", "success", DlgComplete, <<>>)
    /\ UNCHANGED <<wizFrame, settings>>

\* run_setup(): `except Exception` closes the progress dialog, logs and
\* shows the error (lines 358-361)
WizardExcept ==
    /\ wiz.pc = "except"
    /\ wiz' = [wiz EXCEPT !.pc = "done", !.exit = "error",
                          !.progress = IF @ = "open" THEN "closed" ELSE @]
    /\ WizardStep("done", "error", DlgError,
                  Lit("Setup wizard error: ") \o Lit("<exception>"))
    /\ UNCHANGED <<wizFrame, settings>>

\* main(): the add-on is started again: a new RavenSetupWizard
WizardMain ==
    /\ wiz.pc = "done"
    /\ wiz.runs < MaxWizardRuns
    /\ \E h \in DefaultHostnames :
        wiz' = [wiz EXCEPT !.pc = "begin", !.exit = "", !.runs = @ + 1,
                           !.config = WizardConfig(h), !.progress = "none",
                           !.steps = {}]
    /\ last' = Ev("wizard", "main", "", FALSE, None, NoInput)
    /\ log' = <<>>
    /\ notes' = <<>>
    /\ UNCHANGED <<wizFrame, settings>>

\* The wizard on a device where service.tailscale is installed and is about
\* to make an authentication pass
InitWizard ==
    /\ pc = [t \in Paths |-> IF t = "run" THEN "auth" ELSE "off"]
    /\ ctx = [t \in Paths |-> IF t = "run" THEN "init" ELSE "off"]
    /\ tailscaled_process = 1
    /\ alive = {1}
    /\ nextPid = 2
    /\ external = FALSE
    /\ pgrep_ok = TRUE
    /\ abortRequested = FALSE
    /\ settings \in {s \in SupervisorSettings : s.auth_key = <<>>}
    /\ settingsEvents = 0
    /\ cmd = [t \in Paths |-> <<>>]
    /\ spawned = [t \in Paths |-> 0]
    /\ waiting = [t \in Paths |-> 0]
    /\ tickStarts = 0
    /\ tickAlive = "none"
    /\ abortAtWait = FALSE
    /\ lastHandleOp = "other"
    /\ last = Ev("wizard", "main", "", FALSE, None, NoInput)
    /\ log = <<>>
    /\ notes = <<>>
    /\ authkey_file = [exists |-> FALSE, content |-> <<>>, mode |-> 0]
    /\ cfg = [pc |-> "off"]
    /\ rst = [pc |-> "off"]
    /\ \E m \in BOOLEAN, h \in DefaultHostnames :
        wiz = [pc |-> "begin", exit |-> "", runs |-> 1, marker |-> m,
               config |-> WizardConfig(h), progress |-> "none", steps |-> {},
               jellyfin |-> [server_url |-> <<>>, username |-> <<>>],
               ts_hostname |-> <<>>, config_file |-> <<>>]

NextWizard ==
    \/ WizardBegin
    \/ WizardWelcome
    \/ WizardJellyfin
    \/ WizardTailscale
    \/ WizardProgress
    \/ WizardConfigureJellyfin
    \/ WizardConfigureTailscale
    \/ WizardTheme
    \/ WizardSave
    \/ WizardFinish
    \/ WizardExcept
    \/ WizardMain
    \/ Auth("run")
    \/ LoginRun("run")

SpecWizard == InitWizard /\ [][NextWizard]_vars

\* ---------------------------------------------------------------- reset_auth
MaxResetRuns == 3       \* runs of the reset script in one behaviour

\* what subprocess.run([tailscale, --socket=..., 'logout'], timeout=10)
\* can do; there is no check=True, so a non-zero exit does not raise
LogoutOutcomes == {"exit0", "exit1", "timeout", "oserror"}
LogoutRaises(out) == out \in {"timeout", "oserror"}

NoteResetOk == << Lit("Tailscale"), Lit("Authentication reset successfully") >>
NoteResetError == << Lit("Tailscale"), Lit("Error resetting authentication") >>
LogResetError == Lit("[Tailscale] Error resetting auth: ") \o Lit("<exception>")

rstFrame == <<pc, ctx, procVars, envVars, localVars, tickVars, lastHandleOp,
              authkey_file, cfg, wiz>>

\* a step of reset_auth: how the run ended if it did, its log lines and
\* its notifications
ResetStep(exit, lines, shown) ==
    /\ last' = Ev("reset", "reset_auth", exit, FALSE, None, NoInput)
    /\ log' = lines
    /\ notes' = shown
    /\ UNCHANGED rstFrame

\* faulty variant: an exception of the logout command is passed over
AfterLogoutIgnoring(raised) == "remove"

\* reset_auth: an exception in the try block goes to `except Exception`
\* (lines 26-32, 47)
AfterLogout(raised) == IF raised THEN "except" ELSE "remove"

\* reset_auth(): the confirmation dialog (lines 19-24)
ResetConfirm ==
    /\ rst.pc = "confirm"
    /\ \E yes \in BOOLEAN :
        /\ rst' = IF yes THEN [rst EXCEPT !.pc = "logout"]
                  ELSE [rst EXCEPT !.pc = "done", !.exit = "declined"]
        /\ ResetStep(IF yes THEN "" ELSE "declined", <<>>, <<>>)

\* reset_auth(): the logout command (lines 27-32)
ResetLogout ==
    /\ rst.pc = "logout"
    /\ \E out \in LogoutOutcomes :
        /\ rst' = [rst EXCEPT
                     !.pc = AfterLogout(LogoutRaises(out)),
                     !.failed = IF LogoutRaises(out) THEN "logout" ELSE @,
                     !.trace = IF out = "oserror" THEN @
                               ELSE Append(@, "logout")]
        /\ ResetStep("", <<>>, <<>>)

\* reset_auth(): `if os.path.exists(state_file): os.remove(state_file)`
\* (lines 34-37)
ResetRemove ==
    /\ rst.pc = "remove"
    /\ \E removed \in BOOLEAN :
        /\ rst' = IF ~rst.state_file
                  THEN [rst EXCEPT !.pc = "notify"]
                  ELSE IF removed
                  THEN [rst EXCEPT !.pc = "notify", !.state_file = FALSE,
                                   !.trace = Append(@, "remove")]
                  ELSE [rst EXCEPT !.pc = "except", !.failed = "remove"]
        /\ ResetStep("", <<>>, <<>>)

\* reset_auth(): the success notification (lines 39-40)
ResetNotify ==
    /\ rst.pc = "notify"
    /\ \E raised \in BOOLEAN :
        /\ rst' = IF raised
                  THEN [rst EXCEPT !.pc = "except", !.failed = "notify"]
                  ELSE [rst EXCEPT !.pc = "stop"]
        /\ ResetStep("", <<>>, IF raised THEN <<>> ELSE <<NoteResetOk>>)

\* reset_auth(): StopScript(service.tailscale) and xbmc.sleep(2000)
\* (lines 43-44)
ResetStop ==
    /\ rst.pc = "stop"
    /\ rst' = [rst EXCEPT !.pc = "run", !.service = "stopped",
                          !.trace = Append(@, "StopScript")]
    /\ ResetStep("", <<>>, <<>>)

\* reset_auth(): RunScript(service.tailscale) (line 45)
ResetRun ==
    /\ rst.pc = "run"
    /\ rst' = [rst EXCEPT !.pc = "done", !.exit = "ok", !.service = "running",
                          !.trace = Append(@, "RunScript")]
    /\ ResetStep("ok", <<>>, <<>>)

\* reset_auth(): `except Exception` (lines 47-50)
ResetExcept ==
    /\ rst.pc = "except"
    /\ rst' = [rst EXCEPT !.pc = "done", !.exit = "error"]
    /\ ResetStep("error", <<LogResetError>>, <<NoteResetError>>)

\* __main__: the script is run again; a running service may have had the
\* daemon write its state file in between (lines 52-53)
ResetMain ==
    /\ rst.pc = "done"
    /\ rst.runs < MaxResetRuns
    /\ \E f \in (IF rst.service = "running" THEN BOOLEAN ELSE {rst.state_file}) :
        rst' = [rst EXCEPT !.pc = "confirm", !.exit = "", !.failed = "",
                           !.runs = @ + 1, !.trace = <<>>, !.state_file = f,
                           !.before = [state_file |-> f, service |-> rst.service]]
    /\ last' = Ev("reset", "main", "", FALSE, None, NoInput)
    /\ log' = <<>>
    /\ notes' = <<>>
    /\ UNCHANGED rstFrame

\* The reset script on a device where the service add-on is installed
InitReset ==
    /\ pc = [t \in Paths |-> "off"]
    /\ ctx = [t \in Paths |-> "off"]
    /\ tailscaled_process = 1
    /\ alive = {1}
    /\ nextPid = 2
    /\ external = FALSE
    /\ pgrep_ok = TRUE
    /\ abortRequested = FALSE
    /\ settings \in {s \in SupervisorSettings : s.auth_key = <<>>}
    /\ settingsEvents = 0
    /\ cmd = [t \in Paths |-> <<>>]
    /\ spawned = [t \in Paths |-> 0]
    /\ waiting = [t \in Paths |-> 0]
    /\ tickStarts = 0
    /\ tickAlive = "none"
    /\ abortAtWait = FALSE
    /\ lastHandleOp = "other"
    /\ last = Ev("reset", "main", "", FALSE, None, NoInput)
    /\ log = <<>>
    /\ notes = <<>>
    /\ authkey_file = [exists |-> FALSE, content |-> <<>>, mode |-> 0]
    /\ cfg = [pc |-> "off"]
    /\ wiz = [pc |-> "off"]
    /\ \E f \in BOOLEAN, sv \in {"running", "stopped"} :
        rst = [pc |-> "confirm", exit |-> "", failed |-> "", runs |-> 1,
               trace |-> <<>>, state_file |-> f, service |-> sv,
               before |-> [state_file |-> f, service |-> sv]]

NextReset ==
    \/ ResetConfirm
    \/ ResetLogout
    \/ ResetRemove
    \/ ResetNotify
    \/ ResetStop
    \/ ResetRun
    \/ ResetExcept
    \/ ResetMain

SpecReset == InitReset /\ [][NextReset]_vars

\* ================================================================= claims
\* a step in which path t leaves the statement named at
Leaves(t, at) == pc[t] = at /\ pc'[t] # at

\* ---- C1 -------------------------------------------------------------------
\* C1 as stated: when start_tailscaled() has spawned a process, an
\* is_tailscaled_running() made right after start returns is true iff that
\* process survived the 2 s grace window, and if it did not survive start
\* returns False and is_tailscaled_running() is false.  (Stated for systems
\* on which pgrep can be executed.)
C1_StartThenAliveIffSurvived ==
    [][\A t \in Paths :
         (Leaves(t, "start_sleep") /\ pgrep_ok) =>
            /\ is_tailscaled_running(Pgrep)' <=> (spawned[t] \in alive')
            /\ (spawned[t] \notin alive') =>
                  (~last'.value /\ ~is_tailscaled_running(Pgrep)')
      ]_vars

\* C1 amended: a start that spawned returns True iff the process the handle
\* names at the end of the grace window is alive (the process it spawned,
\* unless another start replaced the handle meanwhile); whenever it returns
\* True the process table holds a tailscaled, so is_tailscaled_running() is
\* true unless pgrep itself cannot be run; when it returns False,
\* is_tailscaled_running() is false provided no tailscaled other than the
\* handle's process is in the process table.
C1_StartReportsHandleSurvival ==
    [][\A t \in Paths :
         Leaves(t, "start_sleep") =>
            /\ last'.value <=> (tailscaled_process' \in alive')
            /\ (tailscaled_process' = spawned[t]) =>
                   (last'.value <=> (spawned[t] \in alive'))
            /\ (last'.value /\ pgrep_ok) => is_tailscaled_running(Pgrep)'
            /\ (~last'.value /\ alive' \subseteq {tailscaled_process'}
                  /\ ~external') =>
                   ~is_tailscaled_running(Pgrep)'
      ]_vars

\* C1 witness: a start that spawned has just returned False while a
\* tailscaled started from outside is in the process table
C1_Witness ==
    /\ last.op = "start_tailscaled" /\ last.exit = "polled" /\ ~last.value
    /\ tailscaled_process # 0 /\ tailscaled_process \notin alive
    /\ pgrep_ok /\ is_tailscaled_running(Pgrep)

\* ---- C2 -------------------------------------------------------------------
\* C2 as stated: a stop_tailscale() called when the previous operation on
\* the service was a completed stop_tailscale() sends no signal and changes
\* nothing (stop never raises: the bare except returns normally).
C2_SecondStopIsNoOp ==
    [][\A t \in Paths :
         (Leaves(t, "stop") /\ lastHandleOp = "stop") =>
            /\ pc'[t] # "stop_wait"
            /\ UNCHANGED <<tailscaled_process, alive, waiting>>
      ]_vars

\* ---- C3 -------------------------------------------------------------------
\* C3: the login command is started only by an authentication pass whose
\* probe returned BackendState "NeedsLogin"; for "Running" and every other
\* state no command is built or run, whatever auto_login and auth_key are.
C3_LoginOnlyWhenNeedsLogin ==
    [][\A t \in Paths :
         /\ (pc'[t] = "login_run" /\ pc[t] # "login_run") =>
               /\ pc[t] = "auth"
               /\ last'.path = t
               /\ Get(last'.status, "BackendState") = "NeedsLogin"
         /\ (Leaves(t, "auth")
               /\ Get(last'.status, "BackendState") # "NeedsLogin") =>
               /\ pc'[t] # "login_run"
               /\ UNCHANGED cmd
      ]_vars

\* C3 witness: the probe said Running, auto_login is on and a key is
\* configured, and the pass ended without login
C3_Witness ==
    /\ last.op = "authenticate_if_needed" /\ last.exit = "not_needed"
    /\ Get(last.status, "BackendState") = "Running"
    /\ settings.auto_login = "true" /\ strip(settings.auth_key) # <<>>
    /\ pc[last.path] # "login_run"

\* ---- C4 -------------------------------------------------------------------
\* C4 as stated: with BackendState "NeedsLogin" and no auth key configured
\* the pass shows the authentication-required notification and does not
\* run the login command, whatever auto_login is.
C4_NoKeyMeansManual ==
    [][\A t \in Paths :
         (Leaves(t, "auth")
            /\ Get(last'.status, "BackendState") = "NeedsLogin"
            /\ strip(settings.auth_key) = <<>>) =>
               /\ pc'[t] # "login_run"
               /\ notes' = <<NoteAuthRequired>>
      ]_vars

\* C4 amended: with BackendState "NeedsLogin", auto_login decides: if it is
\* not 'true' the pass shows the authentication-required notification and
\* runs no login command, whether or not an auth key is configured; if it
\* is 'true' the login command is run, without --authkey when no auth key
\* is configured.
C4_AutoLoginDecides ==
    [][\A t \in Paths :
         (Leaves(t, "auth")
            /\ Get(last'.status, "BackendState") = "NeedsLogin") =>
               IF settings.auto_login = "true"
               THEN /\ pc'[t] = "login_run"
                    /\ (strip(settings.auth_key) = <<>>) =>
                          \A i \in 1..Len(cmd'[t]) :
                              cmd'[t][i] # Lit("--authkey")
               ELSE /\ pc'[t] # "login_run"
                    /\ notes' = <<NoteAuthRequired>>
                    /\ UNCHANGED cmd
      ]_vars

\* C4 witness: NeedsLogin, no auth key, auto_login off: the notification
C4_Witness ==
    /\ last.op = "authenticate_if_needed" /\ last.exit = "manual"
    /\ strip(settings.auth_key) = <<>>
    /\ notes = <<NoteAuthRequired>>

\* ---- C5 -------------------------------------------------------------------
\* some line of the log sink, or some notification text, contains k
Surfaced(k) ==
    \/ \E i \in 1..Len(log) : Contains(log[i], k)
    \/ \E i \in 1..Len(notes) : Contains(notes[i][1] \o notes[i][2], k)

\* C5 as stated: no line written to the log sink and no notification shown
\* by apply_settings contains the configured auth key.
C5_ConfigNeverSurfacesAuthKey ==
    strip(cfg.s.authkey) # <<>> => ~Surfaced(strip(cfg.s.authkey))

\* C5, the login path of TailscaleService: no log line and no notification
\* contains the auth key that is part of a login command being run or just
\* ended.
C5_LoginNeverSurfacesAuthKey ==
    strip(settings.auth_key) # <<>> => ~Surfaced(strip(settings.auth_key))

\* ---- C6 -------------------------------------------------------------------
\* C6: within one poll tick run() calls start_tailscaled() at most once,
\* and when the tick is over it has called it exactly once if the tick's
\* is_tailscaled_running() was false and not at all if it was true.
C6_OneStartPerDeadTick ==
    [][/\ tickStarts' <= 1
       /\ (pc'["run"] = "loop_head" /\ pc["run"] # "loop_head"
             /\ tickAlive' # "none") =>
               tickStarts' = (IF tickAlive' = "dead" THEN 1 ELSE 0)
       /\ (last'.path = "run" /\ last'.exit = "tick") =>
               tickAlive' = (IF last'.input.kind = "exit" /\ last'.input.rc = 0
                             THEN "alive" ELSE "dead")
      ]_vars

\* C6 witness: the owned daemon was killed from outside, the tick found no
\* tailscaled, and the tick is over with exactly one start
C6_Witness ==
    /\ pc["run"] = "loop_head" /\ tickAlive = "dead" /\ tickStarts = 1
    /\ pgrep_ok /\ nextPid > 2

\* ---- C7 -------------------------------------------------------------------
\* a status probe that timed out, exited non-zero or printed malformed JSON
ProbeFailed(out) ==
    out.kind = "timeout" \/ out.rc # 0 \/ out.stdout = JsonMalformed

\* C7: after a failed probe get_tailscale_status() is None (nothing is
\* raised), authenticate_if_needed() returns without building or running
\* the login command, and its caller goes on: run() to the head of its
\* loop, the callback to its end.
C7_ProbeFailureIsNone ==
    [][\A t \in Paths :
         (Leaves(t, "auth") /\ ProbeFailed(last'.input)) =>
            /\ last'.status = None
            /\ pc'[t] # "login_run"
            /\ pc'[t] = (IF t = "run" THEN "loop_head" ELSE "idle")
            /\ UNCHANGED cmd
      ]_vars

\* C7 witness: run() probed, got malformed JSON, and is at its loop head
C7_Witness ==
    /\ last.path = "run" /\ last.op = "authenticate_if_needed"
    /\ last.input.kind = "exit" /\ last.input.rc = 0
    /\ last.input.stdout = JsonMalformed
    /\ last.status = None
    /\ pc["run"] = "loop_head"

\* ---- C8 -------------------------------------------------------------------
\* C8: once abort is requested while run() is in its poll wait, run() only
\* leaves the wait, stops the daemon and returns: it makes no liveness
\* check and calls neither start_tailscaled() nor login.
C8_AbortAtWaitLeavesLoop ==
    /\ abortAtWait => pc["run"] \in {"wait", "stop", "stop_wait", "done"}
    /\ (abortAtWait /\ last.path = "run") =>
          \/ last.op = "stop_tailscale"
          \/ (last.op = "run" /\ last.exit = "wait_aborted")

\* C8 witness: abort came during the wait and run() has returned
C8_Witness == abortAtWait /\ pc["run"] = "done"

\* ---- C9 -------------------------------------------------------------------
\* C9: a start_tailscaled() whose liveness check finds a tailscaled in the
\* process table returns True, spawns nothing and leaves the handle as it
\* was, also when the process found was not spawned by the service.
C9_StartNoOpWhenRunning ==
    [][\A t \in Paths :
         (Leaves(t, "start") /\ Pgrep.kind = "exit" /\ Pgrep.rc = 0) =>
            /\ last'.value = TRUE
            /\ last'.exit = "already"
            /\ pc'[t] = "auth"
            /\ UNCHANGED <<tailscaled_process, alive, nextPid, spawned>>
      ]_vars

\* C9 witness: start returned True on a daemon the service did not spawn
C9_Witness ==
    /\ last.op = "start_tailscaled" /\ last.exit = "already" /\ last.value
    /\ external /\ alive = {} /\ tailscaled_process = 0

\* ---- C10 ------------------------------------------------------------------
\* C10 as stated: when stop_tailscale() returns after terminating an owned
\* live child, that child is no longer alive (a child that outlives the
\* 10 s wait is killed).
C10_StopLeavesNoLiveChild ==
    [][\A t \in Paths :
         Leaves(t, "stop_wait") => waiting[t] \notin alive'
      ]_vars

\* ---- C11 ------------------------------------------------------------------
\* C11: when a call of apply_settings() is complete, the authkey file exists
\* iff the service is enabled and the auth key (the setting as apply_settings
\* reads it, stripped of surrounding whitespace) is non-empty; a file that
\* exists holds that auth key with mode 0600; and a call that found
\* authentication disabled has removed the file an earlier run left.
C11_AuthkeyFileFollowsSettings ==
    [][(cfg.pc \in {"apply", "up"} /\ cfg'.pc = "wait") =>
          LET k == strip(cfg'.s.authkey) IN
          /\ authkey_file'.exists <=> (cfg'.s.enabled /\ k # <<>>)
          /\ authkey_file'.exists =>
                (authkey_file'.content = k /\ authkey_file'.mode = OwnerOnly)
          /\ (~cfg'.s.enabled \/ k = <<>>) => ~authkey_file'.exists
      ]_vars

\* C11 witness: the service is enabled, the auth key is blank, and the call
\* removed the authkey file it found
C11_Witness ==
    /\ last.op = "apply_settings" /\ last.exit = "disabled" /\ last.value
    /\ cfg.pc = "wait" /\ cfg.s.enabled /\ cfg.s.authkey = KeyBlank
    /\ ~authkey_file.exists

\* ---- C12 ------------------------------------------------------------------
\* flag f (written `f` or `f=value`) occurs in the command line text
FlagIn(text, bare, eq) == \E i \in 1..Len(text) : text[i] \in {bare, eq}

\* the flags of the option vocabulary that occur in the command line text
FlagsOf(text) ==
    {text[i] : i \in 1..Len(text)} \cap
    {"--authkey", "--authkey=", "--accept-routes", "--accept-dns",
     "--hostname", "--hostname=", "--exit-node", "--exit-node=",
     "--advertise-routes", "--advertise-routes=", "--ssh"}

\* each of the seven flags occurs in the text iff its option is set
SevenFlagsIffSet(text, key, routes, dns, host, exit, adv, ssh) ==
    /\ FlagIn(text, "--authkey", "--authkey=") <=> (key # <<>>)
    /\ FlagIn(text, "--accept-routes", "--accept-routes") <=> routes
    /\ FlagIn(text, "--accept-dns", "--accept-dns") <=> dns
    /\ FlagIn(text, "--hostname", "--hostname=") <=> (host # <<>>)
    /\ FlagIn(text, "--exit-node", "--exit-node=") <=> (exit # <<>>)
    /\ FlagIn(text, "--advertise-routes", "--advertise-routes=") <=> (adv # <<>>)
    /\ FlagIn(text, "--ssh", "--ssh") <=> ssh

\* C12 as stated: in every `tailscale up` command line the services build,
\* each of --authkey, --accept-routes, --accept-dns, --hostname, --exit-node,
\* --advertise-routes and --ssh appears iff its option is set in the store.
C12_EveryOptionHasItsFlag ==
    /\ pc["run"] = "login_run" =>
          SevenFlagsIffSet(join(Space, cmd["run"]), strip(settings.auth_key),
              settings.accept_routes = "true", settings.accept_dns = "true",
              settings.hostname, settings.exit_node,
              settings.advertise_routes, settings.ssh_enabled = "true")
    /\ cfg.pc = "up" =>
          SevenFlagsIffSet(cfg.cmd, strip(cfg.s.authkey), cfg.s.accept_routes,
              cfg.s.accept_dns, strip(cfg.s.hostname), strip(cfg.s.exit_node),
              strip(cfg.s.advertise_routes), cfg.s.ssh_enabled)

\* C12 amended: each builder passes one flag per option it reads and
\* nothing else.  login(): the binary, the socket and `up`, then --authkey
\* (with the stripped key), --accept-routes, --accept-dns, --hostname (with
\* the name), each iff its option is set, and never --exit-node,
\* --advertise-routes or --ssh.  apply_settings(): always --authkey=<key>
\* (a command is built only when the key is non-empty), then
\* --accept-routes, --exit-node=, --hostname=, --advertise-routes=, --ssh,
\* each iff its option is set, and never --accept-dns.
C12_EachBuilderPassesItsOptions ==
    /\ pc["run"] = "login_run" =>
          LET c == cmd["run"]
              k == strip(settings.auth_key)
          IN
          /\ SubSeq(c, 1, 3) = << tailscale_bin, SocketArg, Lit("up") >>
          /\ FlagsOf(join(Space, c)) =
                (IF k # <<>> THEN {"--authkey"} ELSE {})
                \cup (IF settings.accept_routes = "true"
                      THEN {"--accept-routes"} ELSE {})
                \cup (IF settings.accept_dns = "true"
                      THEN {"--accept-dns"} ELSE {})
                \cup (IF settings.hostname # <<>> THEN {"--hostname"} ELSE {})
          /\ Len(c) = 3 + (IF k # <<>> THEN 2 ELSE 0)
                        + (IF settings.accept_routes = "true" THEN 1 ELSE 0)
                        + (IF settings.accept_dns = "true" THEN 1 ELSE 0)
                        + (IF settings.hostname # <<>> THEN 2 ELSE 0)
          /\ \A i \in 1..(Len(c) - 1) :
                /\ c[i] = Lit("--authkey") => c[i + 1] = k
                /\ c[i] = Lit("--hostname") => c[i + 1] = settings.hostname
    /\ cfg.pc = "up" =>
          /\ strip(cfg.s.authkey) # <<>>
          /\ FlagsOf(cfg.cmd) =
                {"--authkey="}
                \cup (IF cfg.s.accept_routes THEN {"--accept-routes"} ELSE {})
                \cup (IF strip(cfg.s.exit_node) # <<>>
                      THEN {"--exit-node="} ELSE {})
                \cup (IF strip(cfg.s.hostname) # <<>>
                      THEN {"--hostname="} ELSE {})
                \cup (IF strip(cfg.s.advertise_routes) # <<>>
                      THEN {"--advertise-routes="} ELSE {})
                \cup (IF cfg.s.ssh_enabled THEN {"--ssh"} ELSE {})

\* C12 witness: every option is set; login() has built a command with its
\* four flags and apply_settings() one with its six
C12_Witness ==
    /\ pc["run"] = "login_run" /\ cfg.pc = "up"
    /\ strip(settings.auth_key) # <<>> /\ settings.accept_routes = "true"
    /\ settings.accept_dns = "true" /\ settings.hostname # <<>>
    /\ settings.exit_node # <<>> /\ settings.advertise_routes # <<>>
    /\ settings.ssh_enabled = "true"
    /\ Cardinality(FlagsOf(join(Space, cmd["run"]))) = 4
    /\ Cardinality(FlagsOf(cfg.cmd)) = 6

\* ---- C13 ------------------------------------------------------------------
\* a step in which the start_tailscaled() of path t returns
StartReturns(t) ==
    \/ Leaves(t, "start") /\ pc'[t] # "start_popen"
    \/ Leaves(t, "start_popen") /\ pc'[t] # "start_sleep"
    \/ Leaves(t, "start_sleep")

\* C13: when the first start_tailscaled() of run() returns False, run()
\* logs the failure and returns at once: it goes from the start straight to
\* its end, so it probes no status, runs no login and never reaches the
\* loop, and once returned it takes no further step.
C13_InitialStartFailureIsTerminal ==
    [][/\ (StartReturns("run") /\ ctx["run"] = "init" /\ ~last'.value) =>
             /\ pc'["run"] = "done"
             /\ log'[Len(log')] = LogExiting
       /\ pc["run"] = "done" => (pc'["run"] = "done" /\ last'.path # "run")
       /\ (pc'["run"] \in {"auth", "login_run", "loop_head", "wait"}
             /\ pc["run"] \in {"begin", "start", "start_popen", "start_sleep"}
             /\ ctx["run"] = "init") =>
             (StartReturns("run") /\ last'.value)
      ]_vars

\* C13 witness: the first daemon died in the grace window and run() is over
C13_Witness ==
    /\ pc["run"] = "done" /\ ctx["run"] = "init"
    /\ last.path = "run" /\ last.op = "start_tailscaled"
    /\ last.exit = "polled" /\ ~last.value
    /\ log = <<LogStartFailed, LogExiting>>

\* ---- C14 ------------------------------------------------------------------
\* C14 as stated: when the restart of a dead daemon in the loop fails,
\* run() goes to its end and makes no authentication pass.
C14_FailedRestartIsTerminal ==
    [][(StartReturns("run") /\ ctx["run"] = "loop" /\ ~last'.value) =>
          pc'["run"] = "done"
      ]_vars

\* C14 amended: in the loop the result of the restart is not looked at:
\* whether start_tailscaled() returned True or False, run() goes on to the
\* authentication pass and from there to the next tick.
C14_RestartThenAuthEitherWay ==
    [][/\ (StartReturns("run") /\ ctx["run"] = "loop") =>
             (pc'["run"] = "auth" /\ ctx'["run"] = "loop")
       /\ (ctx["run"] = "loop" /\ pc'["run"] = "auth" /\ pc["run"] # "auth") =>
             StartReturns("run")
       /\ (ctx["run"] = "loop"
             /\ (Leaves("run", "auth") \/ Leaves("run", "login_run"))) =>
             pc'["run"] \in {"login_run", "loop_head"}
      ]_vars

\* C14 witness: the restart in the loop failed and run() is about to probe
C14_Witness ==
    /\ pc["run"] = "auth" /\ ctx["run"] = "loop"
    /\ last.path = "run" /\ last.op = "start_tailscaled" /\ ~last.value

\* ---- C15 ------------------------------------------------------------------
\* line x is among the lines the step wrote to the log sink
Logged(lines, x) == \E i \in 1..Len(lines) : lines[i] = x

C17_AbortAlwaysStopsBeforeReturn ==
    [][/\ (pc'["run"] = "done" /\ pc["run"] # "done" /\ abortRequested) =>
             (last'.path = "run" /\ last'.op = "stop_tailscale")
       /\ (ctx["run"] = "exit" /\ last'.path = "run") =>
             last'.op = "stop_tailscale"
      ]_vars

\* C17 amended: once run() has reached its loop, abort leads it to
\* stop_tailscale() and then to its end: the loop head and the wait go to
\* the stop when abort is requested, run() returns from the loop only
\* through that stop, and after it began the stop it makes no start and no
\* login.  The one return without stop_tailscale() is the failure of the
\* initial start, whether or not abort was requested by then.
C17_LoopExitsThroughStop ==
    [][/\ (pc'["run"] = "done" /\ pc["run"] # "done") =>
             \/ /\ ctx["run"] = "exit" /\ abortRequested
                /\ last'.path = "run" /\ last'.op = "stop_tailscale"
             \/ /\ ctx["run"] = "init" /\ StartReturns("run") /\ ~last'.value
       /\ ((Leaves("run", "loop_head") \/ Leaves("run", "wait"))
              /\ abortRequested) =>
             (pc'["run"] = "stop" /\ ctx'["run"] = "exit")
       /\ (ctx["run"] = "exit" /\ last'.path = "run") =>
             last'.op = "stop_tailscale"
       /\ ctx["run"] = "exit" => ctx'["run"] = "exit"
      ]_vars

\* C17 witness: abort was requested while run() was not in its wait, and
\* run() has returned through stop_tailscale()
C17_Witness ==
    /\ pc["run"] = "done" /\ ctx["run"] = "exit"
    /\ abortRequested /\ ~abortAtWait
    /\ last.path = "run" /\ last.op = "stop_tailscale"

\* ---- C18 ------------------------------------------------------------------
\* a step in which the stop_tailscale() of path t returns
StopReturns(t) ==
    \/ Leaves(t, "stop") /\ pc'[t] # "stop_wait"
    \/ Leaves(t, "stop_wait")

\* C18 as stated: the start_tailscaled() of the settings callback reports a
\* running daemon only if that daemon is a new instance, spawned by this
\* start after the change, whoever had spawned the daemon that ran before.
C18_CallbackAlwaysStartsNewInstance ==
    [][(StartReturns("cb") /\ last'.value) =>
          (spawned["cb"] # 0 /\ spawned["cb"] \in alive')
      ]_vars

\* C18 amended: the callback runs stop_tailscale(), then start_tailscaled(),
\* then the authentication pass, in this order.  Its stop signals only a
\* live child the handle names, never a tailscaled the service did not
\* spawn.  Its start spawns a new instance (a fresh pid, which becomes the
\* handle) only if its liveness check finds no tailscaled in the process
\* table; if one is found, an external daemon or a child that outlived the
\* stop, start returns True and the daemon that ran before keeps running.
C18_CallbackStopStartAuth ==
    [][/\ Leaves("cb", "idle") =>
             (pc'["cb"] = "stop" /\ last'.op = "onSettingsChanged")
       /\ StopReturns("cb") => pc'["cb"] = "start"
       /\ StartReturns("cb") => pc'["cb"] = "auth"
       /\ (Leaves("cb", "auth") \/ Leaves("cb", "login_run")) =>
             pc'["cb"] \in {"login_run", "idle"}
       /\ (pc'["cb"] = "start" /\ pc["cb"] # "start") => StopReturns("cb")
       /\ (pc'["cb"] = "auth" /\ pc["cb"] # "auth") => StartReturns("cb")
       /\ Leaves("cb", "stop") =>
             /\ pc'["cb"] = "stop_wait" <=>
                   (tailscaled_process # 0 /\ tailscaled_process \in alive)
             /\ UNCHANGED <<tailscaled_process, alive, external>>
       /\ Leaves("cb", "start") =>
             IF pgrep_ok /\ PgrepFinds
             THEN /\ last'.exit = "already" /\ last'.value
                  /\ pc'["cb"] = "auth"
                  /\ UNCHANGED <<tailscaled_process, alive, nextPid>>
             ELSE pc'["cb"] = "start_popen"
       /\ (Leaves("cb", "start_popen") /\ last'.exit = "spawned") =>
             /\ nextPid \notin alive
             /\ tailscaled_process' = nextPid
             /\ alive' = alive \cup {nextPid}
      ]_vars

\* C18 witness: a settings change was handled while a tailscaled the
\* service did not spawn was running: the callback's start found it and the
\* callback is at its authentication pass with no new instance
C18_Witness ==
    /\ settingsEvents = 1 /\ pc["cb"] = "auth"
    /\ last.path = "cb" /\ last.op = "start_tailscaled"
    /\ last.exit = "already"
    /\ external /\ alive = {} /\ pgrep_ok

\* ---- C19 ------------------------------------------------------------------
\* path t is inside a stop / start / authenticate sequence
InSequence(t) ==
    pc[t] \in {"stop", "stop_wait", "start", "start_popen", "start_sleep",
               "auth", "login_run"}

\* C19 as stated: the restart path of the poll loop and the stop / start /
\* authenticate sequence of the settings callback are never in progress at
\* the same time.
C19_OneSequenceInFlight ==
    ~(InSequence("run") /\ ctx["run"] = "loop" /\ InSequence("cb"))

\* ---- C20 ------------------------------------------------------------------
\* C20 as stated: at most one process spawned by start_tailscaled() is
\* alive, and a live spawned process is the one the handle names.
C20_AtMostOneOwnedLiveProcess ==
    /\ Cardinality(alive) <= 1
    /\ alive \subseteq {tailscaled_process}

\* ---- C21 ------------------------------------------------------------------
\* C21 as stated: a failed status probe triggers the restart path: the path
\* whose probe failed goes on to start_tailscaled().
C21_ProbeFailureTriggersRestart ==
    [][\A t \in Paths :
         (Leaves(t, "auth") /\ ProbeFailed(last'.input)) => pc'[t] = "start"
      ]_vars

\* C21 amended: a failed probe only ends the authentication pass with a
\* warning: the handle and the process table are not touched and the path
\* returns to its caller (run() to its loop head, the callback to its end).
\* Whether a tick restarts the daemon depends on its liveness check alone,
\* and every authentication pass is entered from a start_tailscaled() that
\* has just returned.
C21_ProbeFailureOnlyEndsPass ==
    [][/\ \A t \in Paths :
             /\ (Leaves(t, "auth") /\ ProbeFailed(last'.input)) =>
                   /\ pc'[t] = (IF t = "run" THEN "loop_head" ELSE "idle")
                   /\ log'[Len(log')] = LogNoStatus
                   /\ UNCHANGED <<tailscaled_process, alive, nextPid, external>>
             /\ (pc'[t] = "auth" /\ pc[t] # "auth") => StartReturns(t)
       /\ (Leaves("run", "wait") /\ last'.exit = "tick") =>
             (pc'["run"] = "start" <=> ~is_tailscaled_running(Pgrep))
       /\ (pc'["run"] = "start" /\ pc["run"] # "start") =>
             \/ pc["run"] = "begin"
             \/ (pc["run"] = "wait" /\ ~is_tailscaled_running(Pgrep))
      ]_vars

\* C21 witness: in the loop the probe of run() failed while the daemon the
\* handle names is alive, and run() is back at its loop head
C21_Witness ==
    /\ pc["run"] = "loop_head" /\ ctx["run"] = "loop"
    /\ last.path = "run" /\ last.op = "authenticate_if_needed"
    /\ last.exit = "no_status" /\ ProbeFailed(last.input)
    /\ tailscaled_process \in alive

\* --------------------------------------------------------- wizard claims
\* a step of run_setup
WizardActs == wiz'.pc # wiz.pc
\* run_setup returns
WizardReturns == wiz.pc \notin {"done", "off"} /\ wiz'.pc = "done"
\* what a run must have got through before the marker is written
FullSuccess == {"welcome", "inputs", "jellyfin", "tailscale"}
\* how a run ends when the user cancels or a configure step fails
CancelledOrFailed == {"declined", "cancelled", "jellyfin_failed",
                      "tailscale_failed"}

\* C22 (as stated): with the marker present run_setup shows no dialog and
\* writes no setting; the marker is written only on a run in which the
\* welcome dialog was accepted, the three Jellyfin inputs were given and
\* both configure steps succeeded; every cancelled or failed run, the ones
\* ending in the exception handler included, leaves the marker absent.
C22_MarkerOnlyOnSuccessfulRun ==
    [][/\ (WizardActs /\ wiz.pc = "begin" /\ wiz.marker
            => /\ wiz'.pc = "done"
               /\ notes' = <<>>
               /\ settings' = settings
               /\ wiz'.jellyfin = wiz.jellyfin
               /\ wiz'.config_file = wiz.config_file)
       /\ (~wiz.marker /\ wiz'.marker => FullSuccess \subseteq wiz.steps)
       /\ (WizardReturns /\ wiz'.exit \in CancelledOrFailed \cup {"error"}
            => ~wiz'.marker)]_vars

\* C22 (amended): as above, but only the runs that end before
\* mark_setup_complete() leave the marker absent: a run that ends in the
\* exception handler has the marker only if it had got through all of the
\* steps, that is, if the exception came after the marker was written.
C22_MarkerOnlyAfterConfigureSteps ==
    [][/\ (WizardActs /\ wiz.pc = "begin" /\ wiz.marker
            => /\ wiz'.pc = "done"
               /\ notes' = <<>>
               /\ settings' = settings
               /\ wiz'.jellyfin = wiz.jellyfin
               /\ wiz'.config_file = wiz.config_file)
       /\ (~wiz.marker /\ wiz'.marker => FullSuccess \subseteq wiz.steps)
       /\ (WizardReturns /\ wiz'.exit \in CancelledOrFailed => ~wiz'.marker)
       /\ (WizardReturns /\ wiz'.exit = "error" /\ wiz'.marker
            => FullSuccess \subseteq wiz.steps)]_vars

\* a run that wrote the marker and then ended in the exception handler
C22_Witness ==
    /\ wiz.pc = "done"
    /\ wiz.exit = "error"
    /\ wiz.marker
    /\ FullSuccess \subseteq wiz.steps

\* C23: whenever run_setup has returned after creating the progress
\* dialog, by success, by a failed configure_jellyfin or configure_tailscale
\* or by an exception, the progress dialog has been closed.
C23_ProgressClosedOnReturn ==
    wiz.pc = "done" => wiz.progress # "open"

\* C24: once the wizard has configured service.tailscale with hostname H,
\* a login of the service is run with '--hostname' followed by H.
C24_WizardHostnameReachesLogin ==
    [][(/\ Leaves("run", "auth")
        /\ pc'["run"] = "login_run"
        /\ wiz.ts_hostname # <<>>)
       => \E i \in 1..(Len(cmd'["run"]) - 1) :
              /\ cmd'["run"][i] = Lit("--hostname")
              /\ cmd'["run"][i + 1] = wiz.ts_hostname]_vars

\* self.config with the two secrets blanked
WithoutSecrets(c) ==
    [c EXCEPT !.jellyfin_password = <<>>, !.tailscale_authkey = <<>>]

\* C27: whenever the wizard writes raven-config.json, the text written
\* contains neither the Jellyfin password nor the Tailscale auth key the
\* user entered, and it is the text the server URL, the username and the
\* hostname alone determine.
C27_ConfigFileHasNoSecrets ==
    [][wiz'.config_file # wiz.config_file
       => /\ ~Contains(wiz'.config_file, wiz.config.jellyfin_password)
          /\ (wiz.config.tailscale_authkey # <<>>
              => ~Contains(wiz'.config_file, wiz.config.tailscale_authkey))
          /\ wiz'.config_file = SafeConfigText(WithoutSecrets(wiz.config))]_vars

\* the file has been written on a run where both secrets were entered
C27_Witness ==
    /\ wiz.pc = "finish"
    /\ wiz.config_file # <<>>
    /\ wiz.config.jellyfin_password # <<>>
    /\ wiz.config.tailscale_authkey # <<>>

\* C25: the command start_tailscaled() spawns is the daemon binary with the
\* state path, the socket path and '--port=' followed by the daemon_port
\* setting or, when that is empty, by 41641; the port value is never empty.
C25_SpawnCarriesPortOrDefault ==
    [][\A t \in Paths :
          Leaves(t, "start_popen")
          => /\ log'[1] = LogStarting(
                    << tailscaled_bin, StateArg, SocketArg,
                       Lit("--port=") \o StrOr(settings.daemon_port, DefaultPort) >>)
             /\ ~Logged(log', LogStarting(
                    << tailscaled_bin, StateArg, SocketArg, Lit("--port=") >>))]_vars

\* ----------------------------------------------------------- reset claims
\* reset_auth returns
ResetReturns == rst.pc \notin {"done", "off"} /\ rst'.pc = "done"
\* the steps of a run without the removal, which is skipped when there is
\* no state file
WithoutRemove(trace) == SelectSeq(trace, LAMBDA e : e # "remove")

\* C26: a declined confirmation changes nothing (no logout, state file and
\* service as they were, nothing shown); a confirmed run in which nothing
\* raises does logout, removal of the state file, StopScript, RunScript in
\* this order and leaves no state file; when the logout raises, the state
\* file and the service are left as they were.
C26_ResetStepsInOrder ==
    [][/\ (ResetReturns /\ rst'.exit = "declined"
            => /\ rst'.trace = <<>>
               /\ rst'.state_file = rst.before.state_file
               /\ rst'.service = rst.before.service
               /\ notes' = <<>>)
       /\ (ResetReturns /\ rst'.exit = "ok"
            => /\ rst'.trace = IF rst.before.state_file
                               THEN <<"logout", "remove", "StopScript", "RunScript">>
                               ELSE <<"logout", "StopScript", "RunScript">>
               /\ ~rst'.state_file
               /\ rst'.service = "running")
       /\ (ResetReturns /\ rst'.exit = "error" /\ rst'.failed = "logout"
            => /\ WithoutRemove(rst'.trace) \in {<<>>, <<"logout">>}
               /\ rst'.trace = WithoutRemove(rst'.trace)
               /\ rst'.state_file = rst.before.state_file
               /\ rst'.service = rst.before.service)]_vars

\* a run whose logout timed out has ended, with the state file in place
C26_Witness ==
    /\ rst.pc = "done"
    /\ rst.exit = "error"
    /\ rst.failed = "logout"
    /\ rst.trace = <<"logout">>
    /\ rst.state_file

\* a confirmed run went through all four steps
C26_WitnessOrder ==
    /\ rst.pc = "done"
    /\ rst.exit = "ok"
    /\ rst.trace = <<"logout", "remove", "StopScript", "RunScript">>

====
